---- MODULE Spec2Model ----
(***************************************************************************)
(* Ingestion pipeline of memic-backend: the upload confirmation, the       *)
(* orchestrator task and the four Celery stage tasks acting on one File    *)
(* row.  Strings that the code inspects (file names, blob paths) are       *)
(* sequences of one-character strings.                                     *)
(***************************************************************************)
EXTENDS Integers, Sequences, FiniteSets, Bags, TLC

(***************************************************************************)
(* Bounds of the model.                                                    *)
(***************************************************************************)
\* number of confirm_upload requests issued for the file
MaxConfirm == 2
\* number of exceptions the environment injects into task bodies
MaxRaise == 4
\* number of times a worker is lost while it executes a stage task
MaxLost == 2
\* number of direct status requests (update_file_status_task)
MaxRequests == 1
\* largest configured value of AFR_RETRY_ATTEMPTS
MaxAttempts == 4
\* number of paragraphs and tables of a raw analysis result
MaxSections == 3

(***************************************************************************)
(* Program constants.                                                      *)
(***************************************************************************)
\* max_retries=3 of every stage task decorator
max_retries == 3
\* max_attempts of convert_to_pdf_libreoffice
max_attempts == 3
\* range(3): the number of dummy chunks created by chunk_file_task
DummyChunks == 3

(***************************************************************************)
(* Strings.                                                                *)
(***************************************************************************)
UpperChars == <<"A","B","C","D","E","F","G","H","I","J","K","L","M",
                "N","O","P","Q","R","S","T","U","V","W","X","Y","Z">>
LowerChars == <<"a","b","c","d","e","f","g","h","i","j","k","l","m",
                "n","o","p","q","r","s","t","u","v","w","x","y","z">>

LowerChar(c) ==
    IF \E i \in 1..Len(UpperChars) : UpperChars[i] = c
    THEN LowerChars[CHOOSE i \in 1..Len(UpperChars) : UpperChars[i] = c]
    ELSE c

\* str.lower()
lower(s) == [i \in 1..Len(s) |-> LowerChar(s[i])]

\* str.endswith(suffix)
endswith(s, suffix) ==
    /\ Len(s) >= Len(suffix)
    /\ SubSeq(s, Len(s) - Len(suffix) + 1, Len(s)) = suffix

\* str.endswith(tuple of suffixes)
endswith_any(s, suffixes) == \E suffix \in suffixes : endswith(s, suffix)

\* index of the last occurrence of c in s, 0 when there is none (str.rfind + 1)
rfind(s, c) ==
    IF \E i \in 1..Len(s) : s[i] = c
    THEN CHOOSE i \in 1..Len(s) : s[i] = c /\ \A k \in (i+1)..Len(s) : s[k] # c
    ELSE 0

\* os.path.splitext(p)[0]: the last dot splits, unless it leads the base name
splitext_root(p) ==
    LET sepIndex == rfind(p, "/")
        dotIndex == rfind(p, ".")
    IN  IF /\ dotIndex > sepIndex
           /\ \E k \in (sepIndex+1)..(dotIndex-1) : p[k] # "."
        THEN SubSeq(p, 1, dotIndex - 1)
        ELSE p

\* blob_path.split('/')[-1]
last_segment(p) == SubSeq(p, rfind(p, "/") + 1, Len(p))

Ext_pdf  == <<".","p","d","f">>
Ext_json == <<".","j","s","o","n">>
Ext_xlsx == <<".","x","l","s","x">>
Ext_pptx == <<".","p","p","t","x">>
Ext_xls  == <<".","x","l","s">>
Ext_ppt  == <<".","p","p","t">>
Ext_doc  == <<".","d","o","c">>
Ext_docx == <<".","d","o","c","x">>
Ext_jpg  == <<".","j","p","g">>
Ext_jpeg == <<".","j","p","e","g">>
Ext_png  == <<".","p","n","g">>
Ext_mp3  == <<".","m","p","3">>
Ext_wav  == <<".","w","a","v">>
Ext_m4a  == <<".","m","4","a">>
Ext_flac == <<".","f","l","a","c">>
Ext_ogg  == <<".","o","g","g">>
Ext_aac  == <<".","a","a","c">>
Ext_eml  == <<".","e","m","l">>
Ext_msg  == <<".","m","s","g">>

\* needs_conversion that compares the name as typed, without lower()
needs_conversion_CaseSensitive(filename) ==
    IF endswith_any(filename, {Ext_pdf, Ext_json}) THEN FALSE
    ELSE IF endswith_any(filename, {Ext_xlsx, Ext_pptx}) THEN FALSE
    ELSE IF endswith_any(filename,
                {Ext_mp3, Ext_wav, Ext_m4a, Ext_flac, Ext_ogg, Ext_aac}) THEN FALSE
    ELSE IF endswith_any(filename, {Ext_eml, Ext_msg}) THEN FALSE
    ELSE TRUE

\* file_converter.needs_conversion
needs_conversion(filename) ==
    LET filename_lower == lower(filename) IN
    IF endswith_any(filename_lower, {Ext_pdf, Ext_json}) THEN FALSE
    ELSE IF endswith_any(filename_lower, {Ext_xlsx, Ext_pptx}) THEN FALSE
    ELSE IF endswith_any(filename_lower,
                {Ext_mp3, Ext_wav, Ext_m4a, Ext_flac, Ext_ogg, Ext_aac}) THEN FALSE
    ELSE IF endswith_any(filename_lower, {Ext_eml, Ext_msg}) THEN FALSE
    ELSE IF endswith_any(filename_lower, {Ext_doc, Ext_docx, Ext_xls, Ext_ppt}) THEN TRUE
    ELSE IF endswith_any(filename_lower, {Ext_jpg, Ext_jpeg, Ext_png}) THEN TRUE
    ELSE TRUE

\* get_parser_for_file that compares the name as it is written
get_parser_for_file_CaseSensitive(filename) ==
    IF endswith(filename, Ext_pdf) THEN "PDFParser"
    ELSE IF endswith_any(filename, {Ext_xlsx, Ext_xls}) THEN "ExcelParser"
    ELSE IF endswith_any(filename, {Ext_pptx, Ext_ppt}) THEN "PowerPointParser"
    ELSE "ValueError"

\* parsing_tasks.get_parser_for_file: the parser class, "ValueError" when unsupported
get_parser_for_file(filename) ==
    LET filename_lower == lower(filename) IN
    IF endswith(filename_lower, Ext_pdf) THEN "PDFParser"
    ELSE IF endswith_any(filename_lower, {Ext_xlsx, Ext_xls}) THEN "ExcelParser"
    ELSE IF endswith_any(filename_lower, {Ext_pptx, Ext_ppt}) THEN "PowerPointParser"
    ELSE "ValueError"

\* file_converter.convert_file_to_pdf: the name of the produced PDF
pdf_filename(filename) == splitext_root(filename) \o Ext_pdf

(***************************************************************************)
(* Identities and storage addresses.                                       *)
(***************************************************************************)
org_id     == <<"o">>
project_id == <<"p">>
file_id    == <<"f">>
Slash      == <<"/">>

Stage_raw       == <<"r","a","w">>
Stage_converted == <<"c","o","n","v","e","r","t","e","d">>
Stage_enriched  == <<"e","n","r","i","c","h","e","d">>
Enriched_json   == <<"e","n","r","i","c","h","e","d",".","j","s","o","n">>

\* generate_blob_path that leaves the stage out of the address
generate_blob_path_NoStage(org, project, file, stage, filename) ==
    org \o <<"/">> \o project \o <<"/">> \o file \o <<"/">> \o filename

\* BaseStorageClient.generate_blob_path
generate_blob_path(org, project, file, stage, filename) ==
    org \o Slash \o project \o Slash \o file \o Slash \o stage \o Slash \o filename

\* ParsingStorageHelper.generate_enriched_json_path
generate_enriched_json_path(org, project, file) ==
    org \o Slash \o project \o Slash \o file \o Slash \o Stage_enriched \o Slash \o Enriched_json

\* convert_file_task: converted_blob_path
converted_blob_path(org, project, file, filename) ==
    org \o Slash \o project \o Slash \o file \o Slash \o Stage_converted \o Slash
        \o pdf_filename(filename)

\* None of a nullable column
None == <<>>

(***************************************************************************)
(* FileStatus and the stage tasks.                                         *)
(***************************************************************************)
FileStatus ==
    {"uploading", "uploaded", "upload_failed",
     "conversion_started", "conversion_complete", "conversion_failed",
     "parsing_started", "parsing_complete", "parsing_failed",
     "chunking_started", "chunking_complete", "chunking_failed",
     "embedding_started", "embedding_complete", "embedding_failed",
     "ready"}

StageTasks == {"convert", "parse", "chunk", "embed"}

\* the chain built by process_file_pipeline_task, in order
TaskChain == <<"convert", "parse", "chunk", "embed">>

StartedOf(task) ==
    CASE task = "convert" -> "conversion_started"
      [] task = "parse"   -> "parsing_started"
      [] task = "chunk"   -> "chunking_started"
      [] task = "embed"   -> "embedding_started"

CompleteOf(task) ==
    CASE task = "convert" -> "conversion_complete"
      [] task = "parse"   -> "parsing_complete"
      [] task = "chunk"   -> "chunking_complete"
      [] task = "embed"   -> "embedding_complete"

FailedOf(task) ==
    CASE task = "convert" -> "conversion_failed"
      [] task = "parse"   -> "parsing_failed"
      [] task = "chunk"   -> "chunking_failed"
      [] task = "embed"   -> "embedding_failed"

\* file names the model uploads
FileNames ==
    { <<"r",".","p","d","f">>,
      <<"m",".","D","o","c","x">>,
      <<"d",".","j","s","o","n">> }

\* file names of every type the code distinguishes: each known extension, some
\* in upper or mixed case, an unknown one, none at all, and "pdf" without its dot
Stems == { <<"a">>, <<"B",".","c">> }
TypeExts ==
    { Ext_pdf, Ext_json, Ext_xlsx, Ext_pptx, Ext_xls, Ext_ppt, Ext_doc, Ext_docx,
      Ext_jpg, Ext_jpeg, Ext_png, Ext_mp3, Ext_wav, Ext_m4a, Ext_flac, Ext_ogg,
      Ext_aac, Ext_eml, Ext_msg,
      <<".","P","D","F">>, <<".","D","o","c","x">>, <<".","X","L","S">>,
      <<".","J","s","o","n">>, <<".","t","x","t">>, <<>>, <<"p","d","f">> }
TypeNames == { stem \o ext : stem \in Stems, ext \in TypeExts }

\* str(e) of the exceptions the environment raises inside a task body; the
\* empty text is that of SoftTimeLimitExceeded() (task_soft_time_limit)
ExcTexts == {"", "e1"}

Unsupported == "Unsupported file type for parsing"
BlobMissing == "File not found in storage after upload"
NULL == "NULL"

(***************************************************************************)
(* Layout analysis (AzureFormRecognizerClient).                            *)
(***************************************************************************)
\* config.AFR_RETRY_ATTEMPTS (default)
AFR_RETRY_ATTEMPTS == 3
\* config.AFR_RETRY_DELAY (default), in seconds
AFR_RETRY_DELAY == 2

\* what one call of the analysis service does: it returns, the wait for the
\* poller times out, an HttpResponseError with status 429 or with another
\* status is raised, or some other exception is raised
AfrOutcomes == {"ok", "timeout", "http_429", "http_other", "error"}

\* a retry: the wait, then what the rest of the loop does
AfterWait(wait, rest) == [rest EXCEPT !.waits = <<wait>> \o @]

\* analyze_document that gives up one attempt early
RECURSIVE analyze_from_OneFewer(_, _)
analyze_from_OneFewer(outcomes, attempt) ==
    IF attempt >= AFR_RETRY_ATTEMPTS
    THEN [raised |-> TRUE, calls |-> attempt, waits |-> <<>>]
    ELSE LET outcome == outcomes[attempt + 1]
             again   == analyze_from_OneFewer(outcomes, attempt + 1)
             failed  == [raised |-> TRUE, calls |-> attempt + 1, waits |-> <<>>]
         IN  CASE outcome = "ok"         ->
                      [raised |-> FALSE, calls |-> attempt + 1, waits |-> <<>>]
               [] outcome = "http_other" -> failed
               [] OTHER -> IF attempt < AFR_RETRY_ATTEMPTS - 2
                           THEN AfterWait(AFR_RETRY_DELAY, again) ELSE failed

\* analyze_document that retries an HTTP error of any status
RECURSIVE analyze_from_RetryAnyStatus(_, _)
analyze_from_RetryAnyStatus(outcomes, attempt) ==
    IF attempt >= AFR_RETRY_ATTEMPTS
    THEN [raised |-> TRUE, calls |-> attempt, waits |-> <<>>]
    ELSE LET outcome == outcomes[attempt + 1]
             again   == analyze_from_RetryAnyStatus(outcomes, attempt + 1)
             failed  == [raised |-> TRUE, calls |-> attempt + 1, waits |-> <<>>]
         IN  CASE outcome = "ok" ->
                      [raised |-> FALSE, calls |-> attempt + 1, waits |-> <<>>]
               [] OTHER -> IF attempt < AFR_RETRY_ATTEMPTS - 1
                           THEN AfterWait(AFR_RETRY_DELAY, again) ELSE failed

\* analyze_document with the two backoff rules exchanged
RECURSIVE analyze_document_with_Swapped(_, _, _)
analyze_document_with_Swapped(attempts, outcomes, attempt) ==
    IF attempt >= attempts
    THEN [raised |-> TRUE, calls |-> attempt, waits |-> <<>>]
    ELSE LET outcome == outcomes[attempt + 1]
             again   == analyze_document_with_Swapped(attempts, outcomes, attempt + 1)
             failed  == [raised |-> TRUE, calls |-> attempt + 1, waits |-> <<>>]
         IN  CASE outcome = "ok"         ->
                      [raised |-> FALSE, calls |-> attempt + 1, waits |-> <<>>]
               [] outcome = "timeout"    ->
                      IF attempt < attempts - 1
                      THEN AfterWait(AFR_RETRY_DELAY * (2 ^ attempt), again) ELSE failed
               [] outcome = "http_429"   ->
                      IF attempt < attempts - 1
                      THEN AfterWait(AFR_RETRY_DELAY * (attempt + 1), again) ELSE failed
               [] outcome = "http_other" -> failed
               [] outcome = "error"      ->
                      IF attempt < attempts - 1
                      THEN AfterWait(AFR_RETRY_DELAY, again) ELSE failed

\* analyze_document when config.AFR_RETRY_ATTEMPTS is `attempts`: the loop
\* over range(attempts), from `attempt` on; calls is the number of calls made,
\* waits the asyncio.sleep arguments in order, raised tells a RuntimeError
\* from a returned result
RECURSIVE analyze_document_with(_, _, _)
analyze_document_with(attempts, outcomes, attempt) ==
    IF attempt >= attempts
    THEN [raised |-> TRUE, calls |-> attempt, waits |-> <<>>]
    ELSE LET outcome == outcomes[attempt + 1]
             again   == analyze_document_with(attempts, outcomes, attempt + 1)
             failed  == [raised |-> TRUE, calls |-> attempt + 1, waits |-> <<>>]
         IN  CASE outcome = "ok"         ->
                      [raised |-> FALSE, calls |-> attempt + 1, waits |-> <<>>]
               [] outcome = "timeout"    ->
                      IF attempt < attempts - 1
                      THEN AfterWait(AFR_RETRY_DELAY * (attempt + 1), again) ELSE failed
               [] outcome = "http_429"   ->
                      IF attempt < attempts - 1
                      THEN AfterWait(AFR_RETRY_DELAY * (2 ^ attempt), again) ELSE failed
               [] outcome = "http_other" -> failed
               [] outcome = "error"      ->
                      IF attempt < attempts - 1
                      THEN AfterWait(AFR_RETRY_DELAY, again) ELSE failed

\* analyze_document under the default configuration, from `attempt` on
analyze_from(outcomes, attempt) ==
    analyze_document_with(AFR_RETRY_ATTEMPTS, outcomes, attempt)

analyze_document(outcomes) == analyze_from(outcomes, 0)

\* a paragraph or table of the raw result: bounding_regions holds the page
\* numbers of its regions and spans the offsets of its spans, either may be empty
RawItems == [bounding_regions : {<<>>, <<2>>}, spans : {<<>>, <<3>>}]

\* _create_section_from_paragraph / _create_section_from_table: page_number is
\* 1 without a bounding region, offset is 0 without a span; content names the
\* source item
create_section(kind, item, i) ==
    [type        |-> kind,
     content     |-> <<kind, i>>,
     offset      |-> IF item.spans # <<>> THEN item.spans[1] ELSE 0,
     page_number |-> IF item.bounding_regions # <<>> THEN item.bounding_regions[1] ELSE 1]

\* the key of sections.sort: (page_number, offset), compared as tuples
key_le(x, y) ==
    \/ x.page_number < y.page_number
    \/ x.page_number = y.page_number /\ x.offset <= y.offset

key_lt(x, y) ==
    \/ x.page_number < y.page_number
    \/ x.page_number = y.page_number /\ x.offset < y.offset

\* a sort that puts an element before the earlier elements of equal key
RECURSIVE sort_Unstable(_)
sort_Unstable(sections) ==
    IF sections = <<>> THEN <<>>
    ELSE LET front == sort_Unstable(SubSeq(sections, 1, Len(sections) - 1))
             x     == sections[Len(sections)]
             n     == Cardinality({i \in 1..Len(front) : key_lt(front[i], x)})
         IN  SubSeq(front, 1, n) \o <<x>> \o SubSeq(front, n + 1, Len(front))

\* list.sort(key=...): a stable sort, each element placed after the earlier
\* elements whose key is not greater
RECURSIVE sort(_)
sort(sections) ==
    IF sections = <<>> THEN <<>>
    ELSE LET front == sort(SubSeq(sections, 1, Len(sections) - 1))
             x     == sections[Len(sections)]
             n     == Cardinality({i \in 1..Len(front) : key_le(front[i], x)})
         IN  SubSeq(front, 1, n) \o <<x>> \o SubSeq(front, n + 1, Len(front))

\* the sections as extracted: the paragraphs, then the tables
extracted_sections(result) ==
    [i \in 1..Len(result.paragraphs) |-> create_section("paragraph", result.paragraphs[i], i)]
        \o [i \in 1..Len(result.tables) |-> create_section("table", result.tables[i], i)]

\* extract_sections_from_result (include_tables = True): the sections
extract_sections_from_result(result) == sort(extracted_sections(result))

(***************************************************************************)
(* The LibreOffice conversion (file_converter.convert_to_pdf_libreoffice). *)
(***************************************************************************)
\* what one run of the soffice process does: it exits with code 0 and the
\* PDF is in the output directory, it exits with another code, it exits with
\* code 0 and there is no PDF, communicate(timeout=300) times out, or Popen
\* raises
LoOutcomes == {"ok", "nonzero_exit", "no_pdf", "timeout", "error"}

\* the loop that stops retrying one attempt early
RECURSIVE convert_from_OneFewer(_, _)
convert_from_OneFewer(outcomes, attempt) ==
    IF attempt >= max_attempts
    THEN [raised |-> TRUE, calls |-> attempt]
    ELSE IF outcomes[attempt + 1] = "ok"
         THEN [raised |-> FALSE, calls |-> attempt + 1]
         ELSE IF attempt < max_attempts - 2
              THEN convert_from_OneFewer(outcomes, attempt + 1)
              ELSE [raised |-> TRUE, calls |-> attempt + 1]

\* the loop over range(max_attempts), from `attempt` on: calls is the number
\* of runs of the process, raised tells an exception from a returned PDF path
RECURSIVE convert_from(_, _)
convert_from(outcomes, attempt) ==
    IF attempt >= max_attempts
    THEN [raised |-> TRUE, calls |-> attempt]
    ELSE LET outcome == outcomes[attempt + 1]
             again   == convert_from(outcomes, attempt + 1)
             failed  == [raised |-> TRUE, calls |-> attempt + 1]
         IN  CASE outcome = "ok"      -> [raised |-> FALSE, calls |-> attempt + 1]
               [] outcome = "timeout" ->
                      IF attempt < max_attempts - 1 THEN again ELSE failed
               [] OTHER ->
                      IF attempt < max_attempts - 1 THEN again ELSE failed

convert_to_pdf_libreoffice(outcomes) == convert_from(outcomes, 0)

ConversionFailed == "LibreOffice conversion failed"

(***************************************************************************)
(* LLM enrichment (BaseParser._enrich_with_llm).                           *)
(***************************************************************************)
\* ENABLE_LLM_ENRICHMENT is false; or it is true and LLMEnrichment() raises,
\* extract_metadata raises, or extract_metadata returns the metadata
LlmBehaviours == {"disabled", "init_raises", "call_raises", "returns"}

\* a dict is the set of its items
EmptyDict == {}
ExtractedMetadata == {<<"document_type", "report">>, <<"reliability", "medium">>}

\* _enrich_with_llm that lets the exception of the LLM client through
_enrich_with_llm_Propagates(behaviour) ==
    IF behaviour = "disabled" THEN [raised |-> FALSE, value |-> EmptyDict]
    ELSE IF behaviour \in {"init_raises", "call_raises"}
         THEN [raised |-> TRUE, value |-> EmptyDict]
    ELSE [raised |-> FALSE, value |-> ExtractedMetadata]

\* _enrich_with_llm: {} when disabled, {} when the try block raises
_enrich_with_llm(behaviour) ==
    IF behaviour = "disabled" THEN [raised |-> FALSE, value |-> EmptyDict]
    ELSE IF behaviour \in {"init_raises", "call_raises"}
         THEN [raised |-> FALSE, value |-> EmptyDict]
    ELSE [raised |-> FALSE, value |-> ExtractedMetadata]

\* BaseParser._create_base_metadata: parser is the name of the parser's class
_create_base_metadata(parser_name) == [parser |-> parser_name]

\* PDFParser.parse, ExcelParser.parse, PowerPointParser.parse: analysis,
\* sections, enrichment when there are sections,
\* _create_enriched_json_structure; any exception leaves as a RuntimeError
parse(parser_name, outcomes, result, behaviour) ==
    LET analysis   == analyze_document(outcomes)
        sections   == extract_sections_from_result(result)
        enrichment == IF sections # <<>> THEN _enrich_with_llm(behaviour)
                      ELSE [raised |-> FALSE, value |-> EmptyDict]
    IN  IF analysis.raised \/ enrichment.raised
        THEN [raised |-> TRUE, calls |-> analysis.calls, waits |-> analysis.waits,
              enriched_json |-> None]
        ELSE [raised |-> FALSE, calls |-> analysis.calls, waits |-> analysis.waits,
              enriched_json |-> <<[sections |-> sections,
                                   enriched_metadata |-> enrichment.value,
                                   metadata |-> _create_base_metadata(parser_name)]>>]

ParsingFailed == "PDF parsing failed"

(***************************************************************************)
(* State.                                                                  *)
(***************************************************************************)
VARIABLES
    blob_exists,          \* the raw blob is in storage (the client's PUT)
    original_filename,    \* File.original_filename
    status,               \* File.status
    error_message,        \* File.error_message
    is_converted,         \* File.is_converted
    converted_file_path,  \* File.converted_file_path
    enriched_file_path,   \* File.enriched_file_path
    total_chunks,         \* File.total_chunks
    chunks,               \* the file_chunks rows of the file, in insertion order
    jobs,                 \* the bag of Celery task messages: queued, running or finished
    confirm,              \* position of each confirm_upload request
    written,              \* the status values written to the row so far
    raised,               \* faults (exceptions, lost workers) and status requests injected so far
    afr_outcomes,         \* what the successive calls of the analysis service do
    afr_result,           \* the raw result the analysis service returns
    llm_enrichment,       \* how the LLM enrichment behaves
    afr_calls,            \* calls of the analysis service made by the last analyze_document
    enriched_json,        \* the enriched JSON in storage: None, or <<envelope>>
    document_metadata,    \* file.document_metadata: None, or <<metadata>>
    afr_waits,            \* the waits of the last analyze_document, in seconds
    lo_outcomes,          \* what the successive runs of the LibreOffice process do
    lo_calls,             \* runs of LibreOffice made by the last convert_to_pdf_libreoffice
    blob_args,            \* the arguments of a call of generate_blob_path
    blob_path             \* what that call returned: None, or <<path>>

fileVars == <<original_filename, status, error_message, is_converted,
              converted_file_path, enriched_file_path, total_chunks, written>>
\* the environment of the parser and what parsing leaves behind
parseVars == <<afr_outcomes, afr_result, llm_enrichment, afr_calls, enriched_json,
               document_metadata, afr_waits>>
\* the environment of the converter and what conversion leaves behind
convVars == <<lo_outcomes, lo_calls>>
\* one call of the storage address function
pathVars == <<blob_args, blob_path>>
envVars == <<parseVars, convVars, pathVars>>
vars == <<blob_exists, original_filename, status, error_message, is_converted,
          converted_file_path, enriched_file_path, total_chunks, chunks, jobs,
          confirm, written, raised, envVars>>

Callers == 1..MaxConfirm

\* a task message; origin tells a link of the chain from a message sent with
\* .delay(), retries is request.retries, exc the exception of its last failure
Job(task, origin) ==
    [task |-> task, origin |-> origin, retries |-> 0,
     pc |-> "queued", exc |-> NULL, loaded |-> 0]

Send(B, j) == B (+) SetToBag({j})
Take(B, j) == B (-) SetToBag({j})

Running(j) == j.pc \notin {"queued", "done", "failed"}
Pending(j) == j.pc \notin {"done", "failed"}

blob_storage_path ==
    generate_blob_path(org_id, project_id, file_id, Stage_raw, original_filename)

\* a service that answers at the first call with a one-paragraph result, and
\* enrichment disabled (the default of ENABLE_LLM_ENRICHMENT); nothing parsed yet
DefaultOutcomes == [i \in 1..AFR_RETRY_ATTEMPTS |-> "ok"]
DefaultResult ==
    [paragraphs |-> <<[bounding_regions |-> <<2>>, spans |-> <<3>>]>>, tables |-> <<>>]

NothingParsed ==
    /\ afr_calls = 0
    /\ afr_waits = <<>>
    /\ enriched_json = None
    /\ document_metadata = None

ParseDefaults ==
    /\ afr_outcomes = DefaultOutcomes
    /\ afr_result = DefaultResult
    /\ llm_enrichment = "disabled"
    /\ NothingParsed

\* a LibreOffice that converts at its first run; nothing converted yet
DefaultLoOutcomes == [i \in 1..max_attempts |-> "ok"]

NothingConverted == lo_calls = 0

ConvertDefaults ==
    /\ lo_outcomes = DefaultLoOutcomes
    /\ NothingConverted

\* generate_blob_path not called by hand
NoBlobPath ==
    /\ blob_args = <<>>
    /\ blob_path = None

Init ==
    /\ ParseDefaults
    /\ ConvertDefaults
    /\ NoBlobPath
    /\ blob_exists = FALSE
    /\ original_filename \in FileNames
    /\ status = "uploading"
    /\ error_message = NULL
    /\ is_converted = FALSE
    /\ converted_file_path = None
    /\ enriched_file_path = None
    /\ total_chunks = 0
    /\ chunks = <<>>
    /\ jobs = EmptyBag
    /\ confirm = [c \in Callers |-> "idle"]
    /\ written = {"uploading"}
    /\ raised = 0

(***************************************************************************)
(* FileRepository.update_status: a blind write of status; error_message is *)
(* written only when the argument is truthy.                               *)
(***************************************************************************)
\* update_status that writes error_message whatever the argument is
update_status_AlwaysWrites(new_status, message) ==
    /\ status' = new_status
    /\ error_message' = message
    /\ written' = written \cup {new_status}

update_status(new_status, message) ==
    /\ status' = new_status
    /\ error_message' = IF message \notin {NULL, ""} THEN message ELSE error_message
    /\ written' = written \cup {new_status}

(***************************************************************************)
(* Celery: what becomes of a task message when the task returns or calls   *)
(* self.retry(exc=e).                                                      *)
(***************************************************************************)
Step(j, pc) == Send(Take(jobs, j), [j EXCEPT !.pc = pc])

ChainIndex(task) == CHOOSE i \in 1..Len(TaskChain) : TaskChain[i] = task

\* the task returned: a link of the chain sends the next link
Succeed(j) ==
    LET finished == Send(Take(jobs, j), [j EXCEPT !.pc = "done", !.exc = NULL, !.loaded = 0])
    IN  IF j.origin = "chain" /\ ChainIndex(j.task) < Len(TaskChain)
        THEN Send(finished, Job(TaskChain[ChainIndex(j.task) + 1], "chain"))
        ELSE finished

\* Retry with the bound off by one: one execution too many
Retry_OffByOne(j, text) ==
    Send(Take(jobs, j),
         IF j.retries <= max_retries
         THEN [j EXCEPT !.retries = @ + 1, !.pc = "queued", !.exc = text, !.loaded = 0]
         ELSE [j EXCEPT !.pc = "failed", !.exc = text, !.loaded = 0])

\* self.retry(exc=e): the message is sent again until max_retries is exceeded,
\* then e propagates, the task fails and its chain is abandoned
Retry(j, text) ==
    Send(Take(jobs, j),
         IF j.retries < max_retries
         THEN [j EXCEPT !.retries = @ + 1, !.pc = "queued", !.exc = text, !.loaded = 0]
         ELSE [j EXCEPT !.pc = "failed", !.exc = text, !.loaded = 0])

\* the except block shared by the four stage tasks
HandleException(j, text) ==
    /\ update_status(FailedOf(j.task), text)
    /\ jobs' = Retry(j, text)

(***************************************************************************)
(* Upload confirmation (FileService.confirm_upload).                       *)
(***************************************************************************)
\* the client PUTs the file to the presigned URL
ClientPut ==
    /\ ~blob_exists
    /\ blob_exists' = TRUE
    /\ UNCHANGED <<envVars, fileVars, chunks, jobs, confirm, raised>>

\* the request reads the row and rejects unless status is UPLOADING
ConfirmCheck(c) ==
    /\ confirm[c] = "idle"
    /\ confirm' = [confirm EXCEPT ![c] = IF status = "uploading" THEN "checked" ELSE "rejected"]
    /\ UNCHANGED <<envVars, blob_exists, fileVars, chunks, jobs, raised>>

\* after awaiting file_exists: UPLOAD_FAILED, or UPLOADED and the pipeline is
\* queued (a failure to queue is logged and ignored)
ConfirmAct(c) ==
    /\ confirm[c] = "checked"
    /\ IF ~blob_exists
       THEN /\ update_status("upload_failed", BlobMissing)
            /\ confirm' = [confirm EXCEPT ![c] = "failed"]
            /\ UNCHANGED jobs
       ELSE /\ update_status("uploaded", NULL)
            /\ confirm' = [confirm EXCEPT ![c] = "done"]
            /\ \E queued \in BOOLEAN :
                 jobs' = IF queued THEN Send(jobs, Job("pipeline", "delay")) ELSE jobs
    /\ UNCHANGED <<envVars, blob_exists, original_filename, is_converted, converted_file_path,
                   enriched_file_path, total_chunks, chunks, raised>>

(***************************************************************************)
(* process_file_pipeline_task.                                             *)
(***************************************************************************)
\* the file and the project are found: the chain is built and its first link sent
PipelineRun(j) ==
    /\ j.task = "pipeline" /\ j.pc = "queued"
    /\ jobs' = Send(Step(j, "done"), Job(TaskChain[1], "chain"))
    /\ UNCHANGED <<envVars, blob_exists, fileVars, chunks, confirm, raised>>

\* PipelineFail that spares a document that is already ready
PipelineFail_UnlessReady(j, text) ==
    /\ j.task = "pipeline" /\ j.pc = "queued"
    /\ raised < MaxRaise
    /\ raised' = raised + 1
    /\ IF status = "ready"
       THEN UNCHANGED <<status, error_message, written>>
       ELSE update_status("upload_failed", text)
    /\ jobs' = Send(Take(jobs, j), [j EXCEPT !.pc = "failed", !.exc = text])
    /\ UNCHANGED <<envVars, blob_exists, original_filename, is_converted, converted_file_path,
                   enriched_file_path, total_chunks, chunks, confirm>>

\* an exception while loading or while building or sending the chain
PipelineFail(j, text) ==
    /\ j.task = "pipeline" /\ j.pc = "queued"
    /\ raised < MaxRaise
    /\ raised' = raised + 1
    /\ update_status("upload_failed", text)
    /\ jobs' = Send(Take(jobs, j), [j EXCEPT !.pc = "failed", !.exc = text])
    /\ UNCHANGED <<envVars, blob_exists, original_filename, is_converted, converted_file_path,
                   enriched_file_path, total_chunks, chunks, confirm>>

(***************************************************************************)
(* convert_file_task.                                                      *)
(***************************************************************************)
\* ConvertStart that converts every file
ConvertStart_AlwaysConvert(j) ==
    /\ j.task = "convert" /\ j.pc = "queued"
    /\ update_status("conversion_started", NULL)
    /\ jobs' = Step(j, "c_convert")
    /\ UNCHANGED <<envVars, blob_exists, original_filename, is_converted, converted_file_path,
                   enriched_file_path, total_chunks, chunks, confirm, raised>>

\* the row is read; a file that needs no conversion is marked
\* CONVERSION_COMPLETE at once, any other CONVERSION_STARTED
ConvertStart(j) ==
    /\ j.task = "convert" /\ j.pc = "queued"
    /\ IF ~needs_conversion(original_filename)
       THEN /\ update_status("conversion_complete", NULL)
            /\ jobs' = Step(j, "c_skip_fields")
       ELSE /\ update_status("conversion_started", NULL)
            /\ jobs' = Step(j, "c_convert")
    /\ UNCHANGED <<envVars, blob_exists, original_filename, is_converted, converted_file_path,
                   enriched_file_path, total_chunks, chunks, confirm, raised>>

\* skipped conversion: is_converted = False, converted_file_path = None
ConvertSkipFields(j) ==
    /\ j.task = "convert" /\ j.pc = "c_skip_fields"
    /\ is_converted' = FALSE
    /\ converted_file_path' = None
    /\ jobs' = Step(j, "c_dispatch")
    /\ UNCHANGED <<envVars, blob_exists, original_filename, status, error_message,
                   enriched_file_path, total_chunks, written, chunks, confirm, raised>>

\* download, LibreOffice conversion and upload of the PDF; a conversion that
\* fails for good raises
ConvertWork(j) ==
    /\ j.task = "convert" /\ j.pc = "c_convert"
    /\ lo_calls' = convert_to_pdf_libreoffice(lo_outcomes).calls
    /\ IF convert_to_pdf_libreoffice(lo_outcomes).raised
       THEN HandleException(j, ConversionFailed)
       ELSE /\ jobs' = Step(j, "c_complete")
            /\ UNCHANGED <<status, error_message, written>>
    /\ UNCHANGED <<parseVars, pathVars, lo_outcomes,
                   blob_exists, original_filename, is_converted, converted_file_path,
                   enriched_file_path, total_chunks, chunks, confirm, raised>>

ConvertComplete(j) ==
    /\ j.task = "convert" /\ j.pc = "c_complete"
    /\ update_status("conversion_complete", NULL)
    /\ jobs' = Step(j, "c_fields")
    /\ UNCHANGED <<envVars, blob_exists, original_filename, is_converted, converted_file_path,
                   enriched_file_path, total_chunks, chunks, confirm, raised>>

\* is_converted = True, converted_file_path = converted_blob_path
ConvertFields(j) ==
    /\ j.task = "convert" /\ j.pc = "c_fields"
    /\ is_converted' = TRUE
    /\ converted_file_path' =
           converted_blob_path(org_id, project_id, file_id, original_filename)
    /\ jobs' = Step(j, "c_dispatch")
    /\ UNCHANGED <<envVars, blob_exists, original_filename, status, error_message,
                   enriched_file_path, total_chunks, written, chunks, confirm, raised>>

\* the messages in the broker once convert_file_task has returned: the one of
\* parse_file_task.delay(...) and the next link of the chain
ConvertReturn(j) ==
    Send(Succeed(j), Job("parse", "delay"))

ConvertDispatch(j) ==
    /\ j.task = "convert" /\ j.pc = "c_dispatch"
    /\ jobs' = ConvertReturn(j)
    /\ UNCHANGED <<envVars, blob_exists, fileVars, chunks, confirm, raised>>

(***************************************************************************)
(* parse_file_task.                                                        *)
(***************************************************************************)
\* ParseStart that forgets to write PARSING_STARTED
ParseStart_NoStatus(j) ==
    /\ j.task = "parse" /\ j.pc = "queued"
    /\ jobs' = Step(j, "p_parse")
    /\ UNCHANGED <<envVars, blob_exists, fileVars, chunks, confirm, raised>>

\* update_status(PARSING_STARTED) once the configuration and the row are read
ParseStart(j) ==
    /\ j.task = "parse" /\ j.pc = "queued"
    /\ update_status("parsing_started", NULL)
    /\ jobs' = Step(j, "p_parse")
    /\ UNCHANGED <<envVars, blob_exists, original_filename, is_converted, converted_file_path,
                   enriched_file_path, total_chunks, chunks, confirm, raised>>

\* the artifact parse_file_task downloads
parse_blob_path ==
    IF is_converted /\ converted_file_path # None
    THEN converted_file_path ELSE blob_storage_path

\* parse_filename that is always the uploaded name
parse_filename_Original == original_filename

\* the name parse_file_task selects the parser by
parse_filename ==
    IF is_converted /\ converted_file_path # None
    THEN last_segment(converted_file_path) ELSE original_filename

\* download, parser selection, parser.parse() and upload of the enriched JSON;
\* an unsupported file type raises ValueError, an analysis that fails for good
\* raises RuntimeError
ParseWork(j) ==
    /\ j.task = "parse" /\ j.pc = "p_parse"
    /\ IF get_parser_for_file(parse_filename) = "ValueError"
       THEN /\ HandleException(j, Unsupported)
            /\ UNCHANGED <<afr_calls, afr_waits, enriched_json>>
       ELSE LET parsed == parse(get_parser_for_file(parse_filename),
                                afr_outcomes, afr_result, llm_enrichment) IN
            /\ afr_calls' = parsed.calls
            /\ afr_waits' = parsed.waits
            /\ IF parsed.raised
               THEN /\ HandleException(j, ParsingFailed)
                    /\ UNCHANGED enriched_json
               ELSE /\ enriched_json' = parsed.enriched_json
                    /\ jobs' = Step(j, "p_complete")
                    /\ UNCHANGED <<status, error_message, written>>
    /\ UNCHANGED <<afr_outcomes, afr_result, llm_enrichment, document_metadata,
                   convVars, pathVars,
                   blob_exists, original_filename, is_converted, converted_file_path,
                   enriched_file_path, total_chunks, chunks, confirm, raised>>

ParseComplete(j) ==
    /\ j.task = "parse" /\ j.pc = "p_complete"
    /\ update_status("parsing_complete", NULL)
    /\ jobs' = Step(j, "p_fields")
    /\ UNCHANGED <<envVars, blob_exists, original_filename, is_converted, converted_file_path,
                   enriched_file_path, total_chunks, chunks, confirm, raised>>

\* enriched_file_path, and document_metadata when the metadata is not empty
ParseFields(j) ==
    /\ j.task = "parse" /\ j.pc = "p_fields"
    /\ enriched_file_path' = generate_enriched_json_path(org_id, project_id, file_id)
    /\ document_metadata' =
           IF enriched_json[1].enriched_metadata # EmptyDict
           THEN <<enriched_json[1].enriched_metadata>>
           ELSE document_metadata
    /\ jobs' = Succeed(j)
    /\ UNCHANGED <<afr_outcomes, afr_result, llm_enrichment, afr_calls, afr_waits,
                   enriched_json, convVars, pathVars,
                   blob_exists, original_filename, status, error_message, is_converted,
                   converted_file_path, total_chunks, written, chunks, confirm, raised>>

(***************************************************************************)
(* chunk_file_task (stub).                                                 *)
(***************************************************************************)
ChunkStart(j) ==
    /\ j.task = "chunk" /\ j.pc = "queued"
    /\ update_status("chunking_started", NULL)
    /\ jobs' = Step(j, "k_chunk")
    /\ UNCHANGED <<envVars, blob_exists, original_filename, is_converted, converted_file_path,
                   enriched_file_path, total_chunks, chunks, confirm, raised>>

\* str(i) of a one-digit number
Digits == <<"0","1","2","3","4","5","6","7","8","9">>
str(i) == <<Digits[i + 1]>>

\* file.blob_storage_path.rsplit('/', 2)[0]: the path without its last two segments
rsplit2_head(p) ==
    LET withoutLast == SubSeq(p, 1, rfind(p, "/") - 1)
    IN  SubSeq(withoutLast, 1, rfind(withoutLast, "/") - 1)

\* f"{base_path}/chunks/chunk_{i}.json"
chunk_blob_path(i) ==
    rsplit2_head(blob_storage_path) \o <<"/","c","h","u","n","k","s","/","c","h","u","n","k","_">>
        \o str(i) \o Ext_json

\* the rows chunk_file_task adds: chunk_index 0..2, vector_id null
dummy_chunks ==
    [i \in 1..DummyChunks |->
        [chunk_index |-> i - 1, blob_storage_path |-> chunk_blob_path(i - 1),
         vector_id |-> None]]

ChunkWork(j) ==
    /\ j.task = "chunk" /\ j.pc = "k_chunk"
    /\ chunks' = chunks \o dummy_chunks
    /\ jobs' = Step(j, "k_complete")
    /\ UNCHANGED <<envVars, blob_exists, fileVars, confirm, raised>>

ChunkComplete(j) ==
    /\ j.task = "chunk" /\ j.pc = "k_complete"
    /\ update_status("chunking_complete", NULL)
    /\ jobs' = Step(j, "k_fields")
    /\ UNCHANGED <<envVars, blob_exists, original_filename, is_converted, converted_file_path,
                   enriched_file_path, total_chunks, chunks, confirm, raised>>

ChunkFields(j) ==
    /\ j.task = "chunk" /\ j.pc = "k_fields"
    /\ total_chunks' = Len(dummy_chunks)
    /\ jobs' = Succeed(j)
    /\ UNCHANGED <<envVars, blob_exists, original_filename, status, error_message, is_converted,
                   converted_file_path, enriched_file_path, written, chunks, confirm, raised>>

(***************************************************************************)
(* embed_chunks_task (stub).                                               *)
(***************************************************************************)
EmbedStart(j) ==
    /\ j.task = "embed" /\ j.pc = "queued"
    /\ update_status("embedding_started", NULL)
    /\ jobs' = Step(j, "e_load")
    /\ UNCHANGED <<envVars, blob_exists, original_filename, is_converted, converted_file_path,
                   enriched_file_path, total_chunks, chunks, confirm, raised>>

\* chunk_repo.get_by_file: the rows present now (rows are only ever added)
EmbedLoad(j) ==
    /\ j.task = "embed" /\ j.pc = "e_load"
    /\ jobs' = Send(Take(jobs, j), [j EXCEPT !.pc = "e_vectors", !.loaded = Len(chunks)])
    /\ UNCHANGED <<envVars, blob_exists, fileVars, chunks, confirm, raised>>

\* position of row p among the first n rows ordered by chunk_index (rows with
\* equal chunk_index taken in insertion order)
rank_by_index(p, n) ==
    Cardinality({q \in 1..n :
        \/ chunks[q].chunk_index < chunks[p].chunk_index
        \/ chunks[q].chunk_index = chunks[p].chunk_index /\ q < p})

\* f"vec_{file_id}_{i}"
vector_id_of(i) == <<"vec", file_id, i>>

\* for i, chunk in enumerate(chunks): chunk.vector_id = f"vec_{file_id}_{i}"
EmbedVectors(j) ==
    /\ j.task = "embed" /\ j.pc = "e_vectors"
    /\ chunks' = [p \in 1..Len(chunks) |->
                    IF p <= j.loaded
                    THEN [chunks[p] EXCEPT !.vector_id = vector_id_of(rank_by_index(p, j.loaded))]
                    ELSE chunks[p]]
    /\ jobs' = Step(j, "e_complete")
    /\ UNCHANGED <<envVars, blob_exists, fileVars, confirm, raised>>

EmbedComplete(j) ==
    /\ j.task = "embed" /\ j.pc = "e_complete"
    /\ update_status("embedding_complete", NULL)
    /\ jobs' = Step(j, "e_ready")
    /\ UNCHANGED <<envVars, blob_exists, original_filename, is_converted, converted_file_path,
                   enriched_file_path, total_chunks, chunks, confirm, raised>>

\* EmbedReady that returns without the final status update
EmbedReady_NoReady(j) ==
    /\ j.task = "embed" /\ j.pc = "e_ready"
    /\ jobs' = Succeed(j)
    /\ UNCHANGED <<envVars, blob_exists, fileVars, chunks, confirm, raised>>

\* the final update_status(READY)
EmbedReady(j) ==
    /\ j.task = "embed" /\ j.pc = "e_ready"
    /\ update_status("ready", NULL)
    /\ jobs' = Succeed(j)
    /\ UNCHANGED <<envVars, blob_exists, original_filename, is_converted, converted_file_path,
                   enriched_file_path, total_chunks, chunks, confirm, raised>>

(***************************************************************************)
(* An exception inside the body of a stage task, before its first write   *)
(* or between two of them (a failed read of the row or of the              *)
(* configuration, a failed call to storage, the converter, the analysis    *)
(* service or the database, or the soft time limit): the except block      *)
(* records it and signals retry.                                           *)
(***************************************************************************)
Raise(j, text) ==
    /\ j.task \in StageTasks /\ Pending(j)
    /\ raised < MaxRaise
    /\ raised' = raised + 1
    /\ HandleException(j, text)
    /\ UNCHANGED <<envVars, blob_exists, original_filename, is_converted, converted_file_path,
                   enriched_file_path, total_chunks, chunks, confirm>>

(***************************************************************************)
(* Specifications.                                                         *)
(***************************************************************************)
StageStep(j) ==
    \/ ConvertStart(j) \/ ConvertSkipFields(j) \/ ConvertWork(j)
    \/ ConvertComplete(j) \/ ConvertFields(j) \/ ConvertDispatch(j)
    \/ ParseStart(j) \/ ParseWork(j) \/ ParseComplete(j) \/ ParseFields(j)
    \/ ChunkStart(j) \/ ChunkWork(j) \/ ChunkComplete(j) \/ ChunkFields(j)
    \/ EmbedStart(j) \/ EmbedLoad(j) \/ EmbedVectors(j)
    \/ EmbedComplete(j) \/ EmbedReady(j)

\* one confirm_upload request, hence one pipeline run; exceptions in every task
Next ==
    \/ ClientPut
    \/ ConfirmCheck(1)
    \/ ConfirmAct(1)
    \/ \E j \in BagToSet(jobs) : PipelineRun(j)
    \/ \E j \in BagToSet(jobs) : \E text \in ExcTexts : PipelineFail(j, text)
    \/ \E j \in BagToSet(jobs) : StageStep(j)
    \/ \E j \in BagToSet(jobs) : \E text \in ExcTexts : Raise(j, text)

Spec == Init /\ [][Next]_vars

\* concurrent confirm_upload requests, hence possibly several pipeline runs;
\* exceptions in the orchestrator only
DupNext ==
    \/ ClientPut
    \/ \E c \in Callers : ConfirmCheck(c)
    \/ \E c \in Callers : ConfirmAct(c)
    \/ \E j \in BagToSet(jobs) : PipelineRun(j)
    \/ \E j \in BagToSet(jobs) : \E text \in ExcTexts : PipelineFail(j, text)
    \/ \E j \in BagToSet(jobs) : StageStep(j)

DupSpec == Init /\ [][DupNext]_vars

\* one confirm_upload request for a file that has a parser once converted, no
\* exception anywhere, and workers that keep taking the messages sent to them
LiveInit ==
    /\ Init
    /\ get_parser_for_file(IF needs_conversion(original_filename)
                           THEN pdf_filename(original_filename)
                           ELSE original_filename) # "ValueError"

LiveNext ==
    \/ ClientPut
    \/ ConfirmCheck(1)
    \/ ConfirmAct(1)
    \/ \E j \in BagToSet(jobs) : PipelineRun(j)
    \/ \E j \in BagToSet(jobs) : StageStep(j)

LiveSpec ==
    /\ LiveInit
    /\ [][LiveNext]_vars
    /\ WF_vars(\E j \in BagToSet(jobs) : PipelineRun(j))
    /\ WF_vars(\E j \in BagToSet(jobs) : StageStep(j))

\* one confirm_upload request for a file of any type, no exception other than
\* the ValueError of a file type that has no parser
TypesInit ==
    /\ ParseDefaults
    /\ ConvertDefaults
    /\ NoBlobPath
    /\ blob_exists = FALSE
    /\ original_filename \in TypeNames
    /\ status = "uploading"
    /\ error_message = NULL
    /\ is_converted = FALSE
    /\ converted_file_path = None
    /\ enriched_file_path = None
    /\ total_chunks = 0
    /\ chunks = <<>>
    /\ jobs = EmptyBag
    /\ confirm = [c \in Callers |-> "idle"]
    /\ written = {"uploading"}
    /\ raised = 0

TypesSpec == TypesInit /\ [][LiveNext]_vars

(***************************************************************************)
(* The parsing stage on its own: one confirm_upload request for a PDF, the *)
(* run followed as far as parse_file_task, under every behaviour of the    *)
(* analysis service and of the enrichment.                                 *)
(***************************************************************************)
RowCreated ==
    /\ blob_exists = FALSE
    /\ status = "uploading"
    /\ error_message = NULL
    /\ is_converted = FALSE
    /\ converted_file_path = None
    /\ enriched_file_path = None
    /\ total_chunks = 0
    /\ chunks = <<>>
    /\ jobs = EmptyBag
    /\ confirm = [c \in Callers |-> "idle"]
    /\ written = {"uploading"}
    /\ raised = 0

EmptyResult == [paragraphs |-> <<>>, tables |-> <<>>]

ParseInit ==
    /\ RowCreated
    /\ ConvertDefaults
    /\ NoBlobPath
    /\ NothingParsed
    /\ original_filename = <<"r",".","p","d","f">>
    /\ \/ /\ afr_outcomes \in [1..AFR_RETRY_ATTEMPTS -> AfrOutcomes]
          /\ afr_result = DefaultResult
          /\ llm_enrichment = "returns"
       \/ /\ afr_outcomes = DefaultOutcomes
          /\ afr_result \in {DefaultResult, EmptyResult}
          /\ llm_enrichment \in LlmBehaviours

ParseNext ==
    \/ ClientPut
    \/ ConfirmCheck(1)
    \/ ConfirmAct(1)
    \/ \E j \in BagToSet(jobs) : PipelineRun(j)
    \/ \E j \in BagToSet(jobs) : j.task \in {"convert", "parse"} /\ StageStep(j)

\* workers keep taking the messages sent to them
ParseSpec ==
    /\ ParseInit
    /\ [][ParseNext]_vars
    /\ WF_vars(\E j \in BagToSet(jobs) : PipelineRun(j))
    /\ WF_vars(\E j \in BagToSet(jobs) : j.task \in {"convert", "parse"} /\ StageStep(j))

\* raw results of at most MaxSections paragraphs and tables
RECURSIVE SeqsUpTo(_, _)
SeqsUpTo(S, n) ==
    IF n = 0 THEN {<<>>}
    ELSE LET shorter == SeqsUpTo(S, n - 1)
         IN  shorter \cup {Append(q, x) : q \in shorter, x \in S}

RawResults ==
    {r \in [paragraphs : SeqsUpTo(RawItems, MaxSections),
            tables : SeqsUpTo(RawItems, MaxSections)] :
        Len(r.paragraphs) + Len(r.tables) <= MaxSections}

SectionsInit ==
    /\ RowCreated
    /\ ConvertDefaults
    /\ NoBlobPath
    /\ NothingParsed
    /\ original_filename = <<"r",".","p","d","f">>
    /\ afr_outcomes = DefaultOutcomes
    /\ afr_result \in RawResults
    /\ llm_enrichment = "disabled"

SectionsSpec == SectionsInit /\ [][ParseNext]_vars

(***************************************************************************)
(* The conversion stage on its own: one confirm_upload request for a file  *)
(* that needs conversion, the run followed as far as convert_file_task,    *)
(* under every behaviour of the LibreOffice process.                       *)
(***************************************************************************)
ConvertInit ==
    /\ RowCreated
    /\ ParseDefaults
    /\ NoBlobPath
    /\ NothingConverted
    /\ original_filename = <<"m",".","D","o","c","x">>
    /\ lo_outcomes \in [1..max_attempts -> LoOutcomes]

ConvertNext ==
    \/ ClientPut
    \/ ConfirmCheck(1)
    \/ ConfirmAct(1)
    \/ \E j \in BagToSet(jobs) : PipelineRun(j)
    \/ \E j \in BagToSet(jobs) : j.task = "convert" /\ StageStep(j)

ConvertSpec == ConvertInit /\ [][ConvertNext]_vars

(***************************************************************************)
(* analyze_document called under every configured number of attempts up to *)
(* MaxAttempts: afr_outcomes holds one outcome per configured attempt.     *)
(***************************************************************************)
ConfiguredOutcomes ==
    UNION {[1..attempts -> AfrOutcomes] : attempts \in 1..MaxAttempts}

Analyze ==
    /\ afr_calls = 0
    /\ LET analysis == analyze_document_with(Len(afr_outcomes), afr_outcomes, 0)
       IN  /\ afr_calls' = analysis.calls
           /\ afr_waits' = analysis.waits
    /\ UNCHANGED <<afr_outcomes, afr_result, llm_enrichment, enriched_json,
                   document_metadata, convVars, pathVars, blob_exists, fileVars, chunks,
                   jobs, confirm, raised>>

WaitsInit ==
    /\ RowCreated
    /\ ConvertDefaults
    /\ NoBlobPath
    /\ NothingParsed
    /\ original_filename = <<"r",".","p","d","f">>
    /\ afr_outcomes \in ConfiguredOutcomes
    /\ afr_result = DefaultResult
    /\ llm_enrichment = "disabled"

WaitsNext == Analyze

WaitsSpec == WaitsInit /\ [][WaitsNext]_vars

(***************************************************************************)
(* The status recorder asked directly (update_file_status_task): any       *)
(* status of the enumeration, with or without a message, at any time of a  *)
(* run without exceptions.                                                 *)
(***************************************************************************)
update_file_status_task(new_status, message) ==
    /\ raised < MaxRequests
    /\ raised' = raised + 1
    /\ update_status(new_status, message)
    /\ UNCHANGED <<envVars, blob_exists, original_filename, is_converted, converted_file_path,
                   enriched_file_path, total_chunks, chunks, jobs, confirm>>

RecorderNext ==
    \/ ClientPut
    \/ ConfirmCheck(1)
    \/ ConfirmAct(1)
    \/ \E j \in BagToSet(jobs) : PipelineRun(j)
    \/ \E j \in BagToSet(jobs) : StageStep(j)
    \/ \E s \in FileStatus : \E text \in ExcTexts \cup {NULL} :
           update_file_status_task(s, text)

RecorderSpec == Init /\ [][RecorderNext]_vars

(***************************************************************************)
(* One run, without exceptions, for a document whose analysis yields       *)
(* sections or none.                                                       *)
(***************************************************************************)
SectionsInitOrNone ==
    /\ RowCreated
    /\ ConvertDefaults
    /\ NoBlobPath
    /\ NothingParsed
    /\ original_filename \in { <<"r",".","p","d","f">>, <<"m",".","D","o","c","x">> }
    /\ afr_outcomes = DefaultOutcomes
    /\ afr_result \in {DefaultResult, EmptyResult}
    /\ llm_enrichment = "disabled"

EmptyDocSpec ==
    /\ SectionsInitOrNone
    /\ [][LiveNext]_vars
    /\ WF_vars(\E j \in BagToSet(jobs) : PipelineRun(j))
    /\ WF_vars(\E j \in BagToSet(jobs) : StageStep(j))

(***************************************************************************)
(* The storage address function called on arbitrary strings.               *)
(***************************************************************************)
\* strings with and without a '/'
PathParts == { <<"a">>, <<"b">>, <<"a","/","a">> }

\* (org_id, project_id, file_id, stage, filename)
PathArgs == PathParts \X PathParts \X PathParts \X PathParts \X PathParts

blob_path_of(t) == generate_blob_path(t[1], t[2], t[3], t[4], t[5])

GenerateBlobPath ==
    /\ blob_path = None
    /\ blob_path' = <<blob_path_of(blob_args)>>
    /\ UNCHANGED <<parseVars, convVars, blob_args, blob_exists, fileVars, chunks, jobs,
                   confirm, raised>>

PathInit ==
    /\ RowCreated
    /\ ParseDefaults
    /\ ConvertDefaults
    /\ original_filename = <<"r",".","p","d","f">>
    /\ blob_args \in PathArgs
    /\ blob_path = None

PathNext == GenerateBlobPath

PathSpec == PathInit /\ [][PathNext]_vars

(***************************************************************************)
(* At-least-once delivery (task_acks_late, task_reject_on_worker_lost):    *)
(* the worker is lost after the task committed its completion status and   *)
(* before it returned, so the message is not acknowledged and is delivered *)
(* again; request.retries is not advanced by a redelivery.                 *)
(***************************************************************************)
CommittedComplete ==
    {"c_skip_fields", "c_fields", "c_dispatch", "p_fields", "k_fields", "e_ready"}

WorkerLost(j) ==
    /\ j.task \in StageTasks /\ j.pc \in CommittedComplete
    /\ raised < MaxLost
    /\ raised' = raised + 1
    /\ jobs' = Send(Take(jobs, j), [j EXCEPT !.pc = "queued", !.loaded = 0])
    /\ UNCHANGED <<envVars, blob_exists, fileVars, chunks, confirm>>

\* one confirm_upload request, no exception, workers that may be lost
CrashNext ==
    \/ ClientPut
    \/ ConfirmCheck(1)
    \/ ConfirmAct(1)
    \/ \E j \in BagToSet(jobs) : PipelineRun(j)
    \/ \E j \in BagToSet(jobs) : StageStep(j)
    \/ \E j \in BagToSet(jobs) : WorkerLost(j)

CrashSpec == Init /\ [][CrashNext]_vars

(***************************************************************************)
(* Vocabulary of the properties.                                           *)
(***************************************************************************)
\* number of messages of bag B that satisfy P
CountIn(B, P(_)) ==
    BagCardinality([j \in {x \in BagToSet(B) : P(x)} |-> B[j]])

IsStage(j)    == j.task \in StageTasks
IsPipeline(j) == j.task = "pipeline"
OfTask(t, B)  == LET P(j) == j.task = t IN CountIn(B, P)

\* the stage messages of B
StageJobs(B) == [j \in {x \in BagToSet(B) : IsStage(x)} |-> B[j]]

\* a step in which the except block of stage message j signalled retry and
\* left message r: j sent again with one more retry, or j failed for good
RetrySignalled(j, r) ==
    /\ IsStage(j) /\ Pending(j)
    /\ CopiesIn(j, jobs') < CopiesIn(j, jobs)
    /\ CopiesIn(r, jobs') > CopiesIn(r, jobs)
    /\ r.task = j.task /\ r.origin = j.origin
    /\ \/ r.pc = "queued" /\ r.retries = j.retries + 1
       \/ r.pc = "failed" /\ r.retries = j.retries

\* a step in which the orchestrator message j failed, leaving message r
PipelineFailed(j, r) ==
    /\ IsPipeline(j) /\ j.pc = "queued"
    /\ CopiesIn(j, jobs') < CopiesIn(j, jobs)
    /\ CopiesIn(r, jobs') > CopiesIn(r, jobs)
    /\ IsPipeline(r) /\ r.pc = "failed"

(***************************************************************************)
(* C1. Within one pipeline run no chunk_file_task executes while a         *)
(* parse_file_task of the document is queued or running, no                *)
(* embed_chunks_task executes while a chunk_file_task is queued or         *)
(* running, and a stage executes only once the completion status of its    *)
(* predecessor has been written.                                           *)
(***************************************************************************)
C1_StagesNeverOverlap ==
    \A j \in BagToSet(jobs) :
        /\ (j.task = "chunk" /\ Running(j)) =>
              /\ \A p \in BagToSet(jobs) : p.task = "parse" => ~Pending(p)
              /\ "parsing_complete" \in written
        /\ (j.task = "embed" /\ Running(j)) =>
              /\ \A k \in BagToSet(jobs) : k.task = "chunk" => ~Pending(k)
              /\ "chunking_complete" \in written

(***************************************************************************)
(* C2. One orchestrator call dispatches conversion, parsing, chunking and  *)
(* embedding in this order, each stage message once; when no stage fails   *)
(* and the run has finished, each stage task was executed exactly once.    *)
(***************************************************************************)
C2_EachStageOnce ==
    /\ \A i \in 2..Len(TaskChain) :
          OfTask(TaskChain[i], jobs) > 0 =>
              \E d \in BagToSet(jobs) : d.task = TaskChain[i-1] /\ d.pc = "done"
    /\ \A t \in StageTasks : OfTask(t, jobs) <= 1
    /\ (/\ \A j \in BagToSet(jobs) : j.pc = "done" /\ j.retries = 0
        /\ OfTask("embed", jobs) > 0)
          => \A t \in StageTasks : OfTask(t, jobs) = 1

(***************************************************************************)
(* C3. In the statuses written to the document, X_complete is always       *)
(* preceded by X_started of the same stage, for every file type.           *)
(***************************************************************************)
C3_CompleteAfterStarted ==
    \A t \in StageTasks : CompleteOf(t) \in written => StartedOf(t) \in written

\* C3 as amended: parsing, chunking and embedding complete only after their
\* started status; conversion_complete follows conversion_started exactly for
\* the files that need conversion, the others never see conversion_started
C3_CompleteAfterStartedUnlessSkipped ==
    /\ \A t \in StageTasks \ {"convert"} :
          CompleteOf(t) \in written => StartedOf(t) \in written
    /\ needs_conversion(original_filename) =>
          ("conversion_complete" \in written => "conversion_started" \in written)
    /\ ~needs_conversion(original_filename) => "conversion_started" \notin written

C3_Witness ==
    /\ ~needs_conversion(original_filename)
    /\ {"conversion_complete", "parsing_complete", "chunking_complete",
        "embedding_complete"} \subseteq written

(***************************************************************************)
(* C4. A stage task writes X_started only when the status is the           *)
(* completion status of the predecessor stage (uploaded for conversion).   *)
(***************************************************************************)
C4_StartedFromPredecessor ==
    [][\A j \in BagToSet(jobs) :
         /\ (ConvertStart(j) /\ needs_conversion(original_filename)) => status = "uploaded"
         /\ ParseStart(j) => status = "conversion_complete"
         /\ ChunkStart(j) => status = "parsing_complete"
         /\ EmbedStart(j) => status = "chunking_complete"]_vars

(***************************************************************************)
(* C5. Once the orchestrator has been triggered for a file that has a      *)
(* parser, and no stage raises, the status eventually becomes ready.       *)
(***************************************************************************)
C5_EventuallyReady ==
    (\E j \in BagToSet(jobs) : IsPipeline(j) /\ j.pc = "queued") ~> (status = "ready")

C5_Witness ==
    /\ \E j \in BagToSet(jobs) : IsPipeline(j) /\ j.pc = "done"
    /\ status = "ready"

(***************************************************************************)
(* C6. ready is terminal: within the run no task writes another status     *)
(* once the status is ready.                                               *)
(***************************************************************************)
C6_ReadyIsTerminal == [][status = "ready" => status' = "ready"]_vars

(***************************************************************************)
(* C7. Once a stage task has exhausted its retries the status is that      *)
(* stage's X_failed and stays so, and no task of a later stage of the run  *)
(* is queued or running.                                                   *)
(***************************************************************************)
C7_FailedIsFinal ==
    \A j \in BagToSet(jobs) :
        (IsStage(j) /\ j.pc = "failed") =>
            /\ status = FailedOf(j.task)
            /\ \A k \in BagToSet(jobs) :
                  (IsStage(k) /\ ChainIndex(k.task) > ChainIndex(j.task)) => ~Pending(k)

(***************************************************************************)
(* C8. Every exception in a stage task sets the status to that stage's     *)
(* X_failed and error_message to the exception text before retry is        *)
(* signalled, and a stage message is executed at most 1 + max_retries      *)
(* times.                                                                  *)
(***************************************************************************)
AtMostFourExecutions ==
    \A j \in BagToSet(jobs) : IsStage(j) => j.retries <= max_retries

C9_OrchestratorFailure ==
    [][\A j \in BagToSet(jobs) : \A r \in BagToSet(jobs') :
         PipelineFailed(j, r) =>
             /\ status' = "upload_failed"
             /\ \/ error_message' = r.exc
                \/ r.exc = "" /\ error_message' = NULL
             /\ StageJobs(jobs') = StageJobs(jobs)]_vars

\* C9 as amended: error_message becomes the exception text when the text is
\* not empty and is left as it was otherwise
C9_OrchestratorFailureNonEmpty ==
    [][\A j \in BagToSet(jobs) : \A r \in BagToSet(jobs') :
         PipelineFailed(j, r) =>
             /\ status' = "upload_failed"
             /\ r.exc # "" => error_message' = r.exc
             /\ r.exc = "" => error_message' = error_message
             /\ StageJobs(jobs') = StageJobs(jobs)]_vars

\* the orchestrator of a second trigger failed after the document was ready
C9_Witness ==
    /\ "ready" \in written
    /\ status = "upload_failed"
    /\ \E r \in BagToSet(jobs) :
           IsPipeline(r) /\ r.pc = "failed" /\ r.exc = "e1" /\ error_message = r.exc

(***************************************************************************)
(* C10. A second orchestrator call made while a run is in flight is        *)
(* rejected or superseded: stage tasks of two runs never execute           *)
(* concurrently (the links of one chain execute one after the other, so    *)
(* two links executing at once belong to two runs).                        *)
(***************************************************************************)
C10_SingleFlight ==
    LET ChainLinkRunning(j) == IsStage(j) /\ j.origin = "chain" /\ Running(j)
    IN  CountIn(jobs, ChainLinkRunning) <= 1
(***************************************************************************)
(* C11. Under at-least-once delivery a stage task executed again after it  *)
(* committed its completion status leaves, once the run has finished, the  *)
(* state of a single execution: the chunk rows of one chunking run,        *)
(* total_chunks, is_converted and the artifact addresses, and no more      *)
(* stage messages than a run without a lost worker sends.                  *)
(***************************************************************************)
RunFinished ==
    /\ \A j \in BagToSet(jobs) : ~Pending(j)
    /\ \E j \in BagToSet(jobs) : j.task = "embed" /\ j.pc = "done"

C11_RedeliverySafe ==
    RunFinished =>
        /\ Len(chunks) = DummyChunks
        /\ total_chunks = DummyChunks
        /\ is_converted = needs_conversion(original_filename)
        /\ enriched_file_path = generate_enriched_json_path(org_id, project_id, file_id)
        /\ OfTask("convert", jobs) = 1 /\ OfTask("chunk", jobs) = 1
        /\ OfTask("embed", jobs) = 1 /\ OfTask("parse", jobs) <= 2

(***************************************************************************)
(* C12. A chunk_file_task that runs after an earlier chunk_file_task of    *)
(* the document succeeded replaces the chunk set: the number of chunk rows *)
(* and the set of chunk addresses are those the first run left.            *)
(***************************************************************************)
ChunkAddresses(rows) == {rows[p].blob_storage_path : p \in DOMAIN rows}

C12_ChunkingReplaces ==
    [][\A j \in BagToSet(jobs) :
         (/\ ChunkWork(j)
          /\ \E d \in BagToSet(jobs) : d.task = "chunk" /\ d.pc = "done")
            => /\ Len(chunks') = Len(chunks)
               /\ ChunkAddresses(chunks') = ChunkAddresses(chunks)]_vars
(***************************************************************************)
(* C13. needs_conversion depends on the lower-cased extension only: it is  *)
(* false exactly for the names ending in .pdf, .json, .xlsx, .pptx, .mp3,  *)
(* .wav, .m4a, .flac, .ogg, .aac, .eml or .msg in any case, true for every *)
(* other name, and the same for two names that differ in case or in the    *)
(* part before the extension; convert_file_task branches accordingly.      *)
(***************************************************************************)
SkipExtensions ==
    { Ext_pdf, Ext_json, Ext_xlsx, Ext_pptx, Ext_mp3, Ext_wav, Ext_m4a,
      Ext_flac, Ext_ogg, Ext_aac, Ext_eml, Ext_msg }

\* the extension a name of TypeNames was built with, lower-cased
ExtensionsOf(name) == { lower(ext) : ext \in {e \in TypeExts : \E stem \in Stems : name = stem \o e} }

C13_NeedsConversionByExtension ==
    /\ needs_conversion(original_filename)
          = ~(\E ext \in SkipExtensions : endswith(lower(original_filename), ext))
    /\ \A other \in TypeNames :
          ExtensionsOf(other) \cap ExtensionsOf(original_filename) # {}
              => needs_conversion(other) = needs_conversion(original_filename)
    /\ "conversion_started" \in written
          => ~(\E ext \in SkipExtensions : endswith(lower(original_filename), ext))
    /\ ("conversion_complete" \in written /\ "conversion_started" \notin written)
          => \E ext \in SkipExtensions : endswith(lower(original_filename), ext)

\* an upper-case .PDF went through the skip branch of convert_file_task
C13_Witness ==
    /\ endswith(original_filename, <<".","P","D","F">>)
    /\ "conversion_complete" \in written /\ "conversion_started" \notin written
(***************************************************************************)
(* C14. For a file that needs no conversion convert_file_task never        *)
(* downloads or converts; when it returns the status is                    *)
(* conversion_complete, is_converted is false and converted_file_path is   *)
(* null; every parse_file_task then reads the original upload address and  *)
(* selects its parser by the original filename.                            *)
(***************************************************************************)
C14_SkippedConversion ==
    /\ [](~needs_conversion(original_filename) =>
            /\ \A j \in BagToSet(jobs) :
                  j.task = "convert" => j.pc \notin {"c_convert", "c_complete", "c_fields"}
            /\ (\E j \in BagToSet(jobs) : j.task = "convert" /\ j.pc = "done")
                  => /\ is_converted = FALSE
                     /\ converted_file_path = None
                     /\ "conversion_complete" \in written
            /\ \A j \in BagToSet(jobs) :
                  (j.task = "parse" /\ Running(j))
                      => /\ parse_blob_path = generate_blob_path(org_id, project_id, file_id,
                                                                 Stage_raw, original_filename)
                         /\ parse_filename = original_filename)
    /\ [][\A j \in BagToSet(jobs) :
            (ConvertDispatch(j) /\ ~needs_conversion(original_filename))
                => /\ status' = "conversion_complete"
                   /\ is_converted' = FALSE
                   /\ converted_file_path' = None]_vars

\* an .xlsx was not converted and is being parsed
C14_Witness ==
    /\ endswith(original_filename, Ext_xlsx)
    /\ \E j \in BagToSet(jobs) : j.task = "convert" /\ j.pc = "done"
    /\ \E j \in BagToSet(jobs) : j.task = "parse" /\ j.pc = "p_parse"

(***************************************************************************)
(* C15. For a file that needs conversion a successful convert_file_task    *)
(* leaves is_converted true and converted_file_path                        *)
(* {org_id}/{project_id}/{file_id}/converted/{stem}.pdf; every             *)
(* parse_file_task that runs afterwards downloads that address and selects *)
(* its parser by the converted filename, hence the PDF parser.             *)
(***************************************************************************)
\* the name without its extension: up to the last dot that follows a character
\* of the name which is not a dot
StemOf(name) ==
    LET dots == {i \in 2..Len(name) : name[i] = "." /\ \E k \in 1..(i-1) : name[k] # "."}
    IN  IF dots = {} THEN name
        ELSE SubSeq(name, 1, (CHOOSE i \in dots : \A k \in dots : k <= i) - 1)

ConvertedName == StemOf(original_filename) \o Ext_pdf
ConvertedAddress ==
    org_id \o Slash \o project_id \o Slash \o file_id \o Slash \o Stage_converted
        \o Slash \o ConvertedName

C15_ConvertedIsParsed ==
    needs_conversion(original_filename) =>
        /\ (\E j \in BagToSet(jobs) : j.task = "convert" /\ j.pc = "done")
              => is_converted = TRUE /\ converted_file_path = ConvertedAddress
        /\ \A j \in BagToSet(jobs) :
              (j.task = "parse" /\ Running(j))
                  => /\ parse_blob_path = ConvertedAddress
                     /\ parse_filename = ConvertedName
                     /\ get_parser_for_file(parse_filename) = "PDFParser"

\* a legacy .xls was converted and its PDF is being parsed
C15_Witness ==
    /\ endswith(original_filename, Ext_xls)
    /\ is_converted = TRUE
    /\ \E j \in BagToSet(jobs) : j.task = "parse" /\ j.pc = "p_parse"
(***************************************************************************)
(* C16. In every state a status poll can observe, a status of              *)
(* parsing_complete or chunking_started comes with enriched_file_path set  *)
(* and is_converted equal to needs_conversion(original_filename).          *)
(***************************************************************************)
C16_CompleteWithFields ==
    status \in {"parsing_complete", "chunking_started"} =>
        /\ enriched_file_path # None
        /\ is_converted = needs_conversion(original_filename)

(***************************************************************************)
(* C17: when the analysis call times out on its first two attempts and     *)
(* returns on the third, analyze_document returns after three calls, no    *)
(* parse task enters its except block, parsing_failed is never written,    *)
(* and a queued parse task leads to parsing_complete.                      *)
(***************************************************************************)
TimesOutTwice == afr_outcomes = <<"timeout", "timeout", "ok">>

ParseQueued == \E j \in BagToSet(jobs) : j.task = "parse" /\ j.pc = "queued"

C17_TimeoutsAbsorbed ==
    /\ [](TimesOutTwice =>
            /\ ~analyze_document(afr_outcomes).raised
            /\ afr_calls \in {0, AFR_RETRY_ATTEMPTS}
            /\ "parsing_failed" \notin written
            /\ \A j \in BagToSet(jobs) :
                   j.task = "parse" => j.exc = NULL /\ j.retries = 0 /\ j.pc # "failed")
    /\ (TimesOutTwice /\ ParseQueued) ~> ("parsing_complete" \in written)

C17_Witness ==
    /\ TimesOutTwice
    /\ afr_calls = AFR_RETRY_ATTEMPTS
    /\ status = "parsing_complete"
    /\ enriched_json # None

(***************************************************************************)
(* C18: the calls analyze_document makes.                                  *)
(***************************************************************************)
\* the attempts (1-based) at which analyze_document stops when the attempts
\* of Stopping end the loop: the first of them, else the last attempt
StopsAt(Stopping) ==
    IF Stopping = {} THEN AFR_RETRY_ATTEMPTS
    ELSE CHOOSE i \in Stopping : \A k \in Stopping : i <= k

Returning == {i \in 1..AFR_RETRY_ATTEMPTS : afr_outcomes[i] = "ok"}
Ending    == {i \in 1..AFR_RETRY_ATTEMPTS : afr_outcomes[i] \in {"ok", "http_other"}}

NoEnrichment == llm_enrichment \in {"disabled", "init_raises", "call_raises"}

AnalysisReturns == ~analyze_document(afr_outcomes).raised

C19_EnrichmentNeverFails ==
    /\ [](NoEnrichment =>
            /\ _enrich_with_llm(llm_enrichment) = [raised |-> FALSE, value |-> EmptyDict]
            /\ enriched_json # None => enriched_json[1].enriched_metadata = EmptyDict
            /\ document_metadata = None)
    /\ [](document_metadata # None =>
            /\ document_metadata[1] # EmptyDict
            /\ enriched_json # None
            /\ document_metadata[1] = enriched_json[1].enriched_metadata)
    /\ [](AnalysisReturns => "parsing_failed" \notin written)
    /\ (NoEnrichment /\ AnalysisReturns /\ ParseQueued) ~> ("parsing_complete" \in written)

C19_Witness ==
    /\ llm_enrichment = "call_raises"
    /\ status = "parsing_complete"
    /\ enriched_file_path # None
    /\ enriched_json # None
    /\ enriched_json[1].sections # <<>>
    /\ enriched_json[1].enriched_metadata = EmptyDict
    /\ document_metadata = None

(***************************************************************************)
(* C20: for every raw result, the list extract_sections_from_result        *)
(* returns is a permutation of the paragraph sections followed by the      *)
(* table sections, is non-decreasing in (page_number, offset), and keeps   *)
(* the extraction order of the sections of equal (page_number, offset);    *)
(* the envelope holds that list.                                           *)
(***************************************************************************)
SameKey(x, y) == x.page_number = y.page_number /\ x.offset = y.offset

\* f rearranges a into b, one to one
Rearranges(f, a, b) ==
    /\ \A i, k \in DOMAIN f : i # k => f[i] # f[k]
    /\ \A i \in DOMAIN f : b[i] = a[f[i]]

C20_SortedStablePermutation ==
    LET extracted == extracted_sections(afr_result)
        returned  == extract_sections_from_result(afr_result)
        n         == Len(extracted)
    IN  /\ Len(returned) = n
        /\ \E f \in [1..n -> 1..n] :
               /\ Rearranges(f, extracted, returned)
               /\ \A i, k \in 1..n :
                      i < k => /\ key_le(returned[i], returned[k])
                               /\ SameKey(returned[i], returned[k]) => f[i] < f[k]
        /\ enriched_json # None => enriched_json[1].sections = returned

\* a paragraph and a table of equal key, and a list that had to be reordered
C20_Witness ==
    LET extracted == extracted_sections(afr_result)
    IN  /\ enriched_json # None
        /\ enriched_json[1].sections # extracted
        /\ \E i, k \in 1..Len(extracted) :
               /\ i < k
               /\ extracted[i].type = "paragraph" /\ extracted[k].type = "table"
               /\ SameKey(extracted[i], extracted[k])
        /\ status = "parsing_complete"

(***************************************************************************)
(* C21: the storage address function.                                      *)
(***************************************************************************)
\* C21 as stated: generate_blob_path is deterministic, and any two argument
\* tuples that differ give different addresses, strings that contain '/'
\* included
C21_AddressInjective ==
    blob_path # None =>
        /\ blob_path[1] = blob_path_of(blob_args)
        /\ \A t \in PathArgs : t # blob_args => blob_path_of(t) # blob_path[1]

HasSlash(part) == \E i \in 1..Len(part) : part[i] = "/"

\* org_id, project_id, file_id and stage hold no '/'
PlainPrefix(t) == \A i \in 1..4 : ~HasSlash(t[i])

DifferInOne(t, u) == Cardinality({i \in 1..5 : t[i] # u[i]}) = 1

\* C21 amended: generate_blob_path is deterministic; changing one argument
\* changes the address; two tuples that differ give different addresses when
\* org_id, project_id, file_id and stage of both hold no '/'
C21_AddressInjectiveOnPlainPrefix ==
    blob_path # None =>
        /\ blob_path[1] = blob_path_of(blob_args)
        /\ \A t \in PathArgs :
               /\ DifferInOne(t, blob_args) => blob_path_of(t) # blob_path[1]
               /\ (t # blob_args /\ PlainPrefix(t) /\ PlainPrefix(blob_args))
                      => blob_path_of(t) # blob_path[1]

\* an address asked for a file name that holds a '/'
C21_Witness ==
    /\ blob_path # None
    /\ PlainPrefix(blob_args)
    /\ HasSlash(blob_args[5])
    /\ blob_path[1] = <<"a","/","b","/","a","/","b","/","a","/","a">>

(***************************************************************************)
(* C22: chunking a document whose normalized output has no section leaves  *)
(* no chunk row and total_chunks = 0, ends in chunking_complete and never  *)
(* writes chunking_failed.                                                 *)
(***************************************************************************)
NoSections == enriched_json # None /\ enriched_json[1].sections = <<>>

C22_NoSectionsNoChunks ==
    NoSections =>
        /\ chunks = <<>>
        /\ total_chunks = 0
        /\ "chunking_failed" \notin written

(***************************************************************************)
(* C23: once embed_chunks_task has succeeded, every chunk row of the       *)
(* document has a vector_id, no two rows share one, and the status was     *)
(* embedding_started, then embedding_complete, before it became ready.     *)
(***************************************************************************)
EmbedSucceeded == \E j \in BagToSet(jobs) : j.task = "embed" /\ j.pc = "done"

FirstWritten(s) == s \notin written /\ s \in written'

C23_EmbeddedAll ==
    /\ [](EmbedSucceeded =>
            /\ \A p \in DOMAIN chunks : chunks[p].vector_id # None
            /\ \A p, q \in DOMAIN chunks :
                   p # q => chunks[p].vector_id # chunks[q].vector_id
            /\ {"embedding_started", "embedding_complete", "ready"} \subseteq written)
    /\ [][/\ FirstWritten("embedding_complete") => "embedding_started" \in written
          /\ FirstWritten("ready") => "embedding_complete" \in written]_vars

(***************************************************************************)
(* C24: the status recorder refuses a transition that is not in the graph  *)
(* of the status state machine: the stored status only ever changes to a   *)
(* legal successor of its value.                                           *)
(***************************************************************************)
\* the graph: uploading, uploaded, then per stage started, complete or
\* failed; conversion may complete from uploaded when it is skipped; a stage
\* starts from the completion of its predecessor, or again from its own
\* failure when it is retried; failures for good and ready have no successor
\* other than that
Predecessor(task) ==
    IF ChainIndex(task) = 1 THEN "uploaded" ELSE CompleteOf(TaskChain[ChainIndex(task) - 1])

LegalSuccessor(from, to) ==
    \/ from = "uploading" /\ to \in {"uploaded", "upload_failed"}
    \/ from = "uploaded" /\ to \in {"upload_failed", "conversion_complete"}
    \/ from = "embedding_complete" /\ to = "ready"
    \/ \E task \in StageTasks :
          \/ from \in {Predecessor(task), FailedOf(task)} /\ to = StartedOf(task)
          \/ from = StartedOf(task) /\ to \in {CompleteOf(task), FailedOf(task)}

C24_IllegalTransitionRefused ==
    [][status' # status => LegalSuccessor(status, status')]_vars

(***************************************************************************)
(* C25: the parser is selected by the lower-cased extension alone: .pdf    *)
(* gives PDFParser, .xlsx and .xls ExcelParser, .pptx and .ppt             *)
(* PowerPointParser, any other name the unsupported-type error; the        *)
(* envelope's metadata.parser names the parser selected for the parsed     *)
(* file; a file that skips conversion and has no parser never reaches      *)
(* parsing_complete and is left in parsing_failed when its run is over.    *)
(***************************************************************************)
ParserOfExtension(ext) ==
    CASE ext = Ext_pdf                 -> "PDFParser"
      [] ext \in {Ext_xlsx, Ext_xls}   -> "ExcelParser"
      [] ext \in {Ext_pptx, Ext_ppt}   -> "PowerPointParser"
      [] OTHER                         -> "ValueError"

NoParserNoConversion ==
    /\ ~needs_conversion(original_filename)
    /\ get_parser_for_file(original_filename) = "ValueError"

RunOver ==
    /\ jobs # EmptyBag
    /\ \A j \in BagToSet(jobs) : ~Pending(j)

C25_ParserByExtension ==
    /\ \A ext \in ExtensionsOf(original_filename) :
          get_parser_for_file(original_filename) = ParserOfExtension(ext)
    /\ enriched_json # None =>
          /\ enriched_json[1].metadata.parser = get_parser_for_file(parse_filename)
          /\ enriched_json[1].metadata.parser # "ValueError"
    /\ NoParserNoConversion =>
          /\ "parsing_complete" \notin written
          /\ enriched_json = None
          /\ RunOver => status = "parsing_failed"

\* the run of an upper-case .Json file is over
C25_Witness ==
    /\ endswith(original_filename, <<".","J","s","o","n">>)
    /\ NoParserNoConversion
    /\ RunOver
    /\ status = "parsing_failed"
    /\ error_message = Unsupported

(***************************************************************************)
(* C26: convert_to_pdf_libreoffice runs the converter at most max_attempts *)
(* times: it returns at the first run that exits with code 0 and leaves a  *)
(* PDF, every failed run before the last is followed by another run, and   *)
(* it raises only after max_attempts failed runs.                          *)
(***************************************************************************)
Converting == {i \in 1..max_attempts : lo_outcomes[i] = "ok"}

FirstConverting ==
    IF Converting = {} THEN max_attempts
    ELSE CHOOSE i \in Converting : \A k \in Converting : i <= k

RECURSIVE Doubled(_, _)
Doubled(x, times) == IF times = 0 THEN x ELSE Doubled(x + x, times - 1)

WaitAfter(outcome, k) ==
    CASE outcome = "timeout"  -> AFR_RETRY_DELAY * (k + 1)
      [] outcome = "http_429" -> Doubled(AFR_RETRY_DELAY, k)
      [] OTHER                -> AFR_RETRY_DELAY

C27_Backoff ==
    afr_calls > 0 =>
        /\ Len(afr_waits) = afr_calls - 1
        /\ Len(afr_waits) < Len(afr_outcomes)
        /\ \A k \in 0..(afr_calls - 2) :
               afr_waits[k + 1] = WaitAfter(afr_outcomes[k + 1], k)

\* four attempts configured: a 429, a timeout, a 429, then a result
C27_Witness ==
    /\ afr_outcomes = <<"http_429", "timeout", "http_429", "ok">>
    /\ afr_calls = 4
    /\ afr_waits = <<AFR_RETRY_DELAY, 2 * AFR_RETRY_DELAY, 4 * AFR_RETRY_DELAY>>

(***************************************************************************)
(* C28: whenever the status is chunking_complete or later, the chunk rows  *)
(* of the document carry the indices 0 .. total_chunks - 1, each once:     *)
(* total_chunks is the number of rows and no two rows share a chunk_index  *)
(* or a storage address.                                                   *)
(***************************************************************************)
ChunkedOrLater ==
    status \in {"chunking_complete", "embedding_started", "embedding_complete",
                "embedding_failed", "ready"}

C28_DenseChunkIndices ==
    ChunkedOrLater =>
        /\ total_chunks = Len(chunks)
        /\ {chunks[p].chunk_index : p \in DOMAIN chunks} = 0..(total_chunks - 1)
        /\ \A p, q \in DOMAIN chunks :
               p # q => /\ chunks[p].chunk_index # chunks[q].chunk_index
                        /\ chunks[p].blob_storage_path # chunks[q].blob_storage_path

(***************************************************************************)
(* C29: update_status changes status and, when given a non-empty message,  *)
(* error_message, and nothing else of the row; without a message it leaves *)
(* error_message as it is.  So no task clears error_message, and a         *)
(* document that failed a stage and succeeded on retry is ready with the   *)
(* text of the failure still stored.                                       *)
(***************************************************************************)
FailureStatus ==
    {"upload_failed", "conversion_failed", "parsing_failed", "chunking_failed",
     "embedding_failed"}

C30_TriggeredAtMostOnce ==
    /\ [](OfTask("pipeline", jobs) <= 1)
    /\ [][\A c \in Callers :
            /\ (ConfirmCheck(c) /\ status # "uploading")
                  => confirm'[c] = "rejected" /\ UNCHANGED <<fileVars, jobs, chunks>>
            /\ (ConfirmAct(c) /\ ~blob_exists)
                  => status' = "upload_failed" /\ UNCHANGED jobs
            /\ (ConfirmAct(c) /\ jobs' # jobs)
                  => blob_exists /\ status' = "uploaded"]_vars
====
